---- MODULE Spec2Model ----
(***************************************************************************)
(* Link session supervisor (BleConnectionManager), its transport           *)
(* (BleClient) and the device orchestrator's use of them (LovesacDevice).  *)
(*                                                                         *)
(* Every action is one run of the JavaScript event loop: the code from a   *)
(* callback's or continuation's start up to the next await on real I/O.    *)
(* The synchronous code is written as operators from a state record to a   *)
(* state record, named after the methods they model, so that a call in the *)
(* source is a call in the model.                                          *)
(***************************************************************************)
EXTENDS Integers, Sequences, FiniteSets, TLC

\* ---- bounds ----
MaxCmds == 4        \* commands enqueued in one behaviour
MaxLiveCmds == 3    \* the same, where eventual completion is checked
MaxDrains == 2      \* processQueue invocations that can be live at once
MaxTimedCmds == 2   \* commands enqueued in a behaviour with a clock
IdleTimeout == 2    \* the configured idle timeout, in ticks of the clock
MaxNotes == 2       \* notifications decoded in one behaviour
NumListeners == 2   \* state-change listeners registered with the device
MaxDevCmds == 2     \* commands enqueued in a behaviour with device verbs
MaxVerbCmds == 2    \* device verbs called while the transport is pending
MaxInput == 300
MaxPollCmds == 4
MaxStarts == 2
MaxEnsureCmds == 3
MaxPolledCmds == 5     \* the largest magnitude of an argument of an encoder

\* ---- environment ----
Devices == {"A", "B"}     \* StealthTech devices in radio range
Configs == {"", "A"}      \* the configured address; "" is auto-discovery

Ext == 0                  \* a caller of the public ensureConnected()
DrainIds == 1..MaxDrains
TaskIds == 0..MaxDrains
NoTask == -1

VARIABLES
  mgr,      \* fields of BleConnectionManager
  client,   \* fields of BleClient
  env,      \* the radio link and the event loop's timers
  task,     \* position of each asynchronous call chain
  cmds,     \* every command enqueued so far, with its completion handle
  hist,     \* history of calls, for stating the claims
  dev,      \* fields of LovesacDevice
  calc      \* a call of a pure function of the protocol: input and result

vars == <<mgr, client, env, task, cmds, hist, dev, calc>>

St == [mgr |-> mgr, client |-> client, env |-> env, task |-> task,
       cmds |-> cmds, hist |-> hist]

\* hist.down: the link was down at some moment since the last poll tick
Become(s) ==
  /\ mgr' = s.mgr
  /\ client' = s.client
  /\ env' = s.env
  /\ task' = s.task
  /\ cmds' = s.cmds
  /\ hist' = [s.hist EXCEPT !.down = @ \/ ~s.env.link]
  /\ dev' = dev
  /\ calc' = calc

IdleTask == [pc |-> "idle", item |-> 0, attempt |-> 0, waitOn |-> NoTask,
             writes |-> 0, conns |-> 0, discs |-> 0]

ConnPhases == {"scan", "link", "disc", "sub"}

\* ---- protocol/constants.ts, protocol/responses.ts ----

ResponseCode ==
  [Volume |-> 1, CenterVolume |-> 2, Treble |-> 3, Bass |-> 4, Mute |-> 5,
   QuietMode |-> 6, Balance |-> 7, Layout |-> 8, Source |-> 9, Power |-> 10,
   Preset |-> 11, Covering |-> 12, ArmType |-> 13, Subwoofer |-> 14,
   RearVolume |-> 15]

createDefaultState ==
  [power |-> FALSE, volume |-> -1, mute |-> FALSE, source |-> -1,
   preset |-> -1, quietMode |-> FALSE, bass |-> -1, treble |-> -1,
   centerVolume |-> -1, rearVolume |-> -1, balance |-> -1,
   subwooferConnected |-> FALSE]

OUT_OF_RANGE == "out_of_range"

\* the result "undefined" of parseNotification
undefined == [defined |-> FALSE, code |-> 0, value |-> 0]

\* data is a sequence of bytes, data[i] of the source is data[i + 1] here
parseNotification(data) ==
  IF Len(data) < 4 THEN undefined
  ELSE IF Len(data) >= 5 /\ data[3] = 170 /\ data[4] = 1 /\ data[5] = 3
       THEN undefined
       ELSE LET code == data[Len(data) - 1]
                value == data[Len(data)]
            IN IF code < ResponseCode.Volume \/ code > ResponseCode.RearVolume
               THEN undefined
               ELSE [defined |-> TRUE, code |-> code, value |-> value]

inRangeAlways(value, min, max) == TRUE

inRange(value, min, max) == value >= min /\ value <= max

sameNever(stored, v) == FALSE

\* state.field === value
same(stored, v) == stored = v

\* one case of applyResponse after its range check: compare, assign
\* and return; "true" and "false" are the booleans returned
store(state, field, v) ==
  IF same(state[field], v)
  THEN [state |-> state, changed |-> "false"]
  ELSE [state |-> [state EXCEPT ![field] = v], changed |-> "true"]

outOfRange(state) == [state |-> state, changed |-> OUT_OF_RANGE]

powerOnNatural(value) == value = 1

\* const on = value === 0
powerOn(value) == value = 0

applyResponse(state, response) ==
  LET code == response.code
      value == response.value
  IN CASE code = ResponseCode.Volume ->
            IF ~inRange(value, 0, 36) THEN outOfRange(state)
            ELSE store(state, "volume", value)
       [] code = ResponseCode.CenterVolume ->
            IF ~inRange(value, 0, 30) THEN outOfRange(state)
            ELSE store(state, "centerVolume", value)
       [] code = ResponseCode.Treble ->
            IF ~inRange(value, 0, 20) THEN outOfRange(state)
            ELSE store(state, "treble", value)
       [] code = ResponseCode.Bass ->
            IF ~inRange(value, 0, 20) THEN outOfRange(state)
            ELSE store(state, "bass", value)
       [] code = ResponseCode.Mute ->
            IF ~inRange(value, 0, 1) THEN outOfRange(state)
            ELSE store(state, "mute", value = 1)
       [] code = ResponseCode.QuietMode ->
            IF ~inRange(value, 0, 1) THEN outOfRange(state)
            ELSE store(state, "quietMode", value = 1)
       [] code = ResponseCode.Balance ->
            IF ~inRange(value, 0, 100) THEN outOfRange(state)
            ELSE store(state, "balance", value)
       [] code = ResponseCode.Source ->
            IF ~inRange(value, 0, 3) THEN outOfRange(state)
            ELSE store(state, "source", value)
       [] code = ResponseCode.Power ->
            IF ~inRange(value, 0, 1) THEN outOfRange(state)
            ELSE store(state, "power", powerOn(value))
       [] code = ResponseCode.Preset ->
            IF ~inRange(value, 0, 3) THEN outOfRange(state)
            ELSE store(state, "preset", value)
       [] code = ResponseCode.Subwoofer ->
            IF ~inRange(value, 0, 1) THEN outOfRange(state)
            ELSE store(state, "subwooferConnected", value = 1)
       [] code = ResponseCode.RearVolume ->
            IF ~inRange(value, 0, 30) THEN outOfRange(state)
            ELSE store(state, "rearVolume", value)
       [] OTHER -> [state |-> state, changed |-> "false"]

\* ---- settings.ts, protocol/constants.ts, protocol/commands.ts ----

MAX_VOLUME == 36

CharUUID == [EqControl |-> "0003", AudioPath |-> "0004", Source |-> "0007"]

PresetWriteValue == [TV |-> 5, News |-> 6, Movies |-> 7, Music |-> 8, Manual |-> 9]
PresetReadValue == [Movies |-> 0, Music |-> 1, TV |-> 2, News |-> 3]
SourceValue == [HDMI |-> 0, Bluetooth |-> 1, AUX |-> 2, Optical |-> 3]

\* a result that may be undefined
Some(v) == [defined |-> TRUE, value |-> v]
None == [defined |-> FALSE, value |-> 0]

presetWriteToReadRaw(writeVal) == Some(writeVal)

presetWriteToRead(writeVal) ==
  CASE writeVal = PresetWriteValue.Movies -> Some(PresetReadValue.Movies)
    [] writeVal = PresetWriteValue.Music -> Some(PresetReadValue.Music)
    [] writeVal = PresetWriteValue.TV -> Some(PresetReadValue.TV)
    [] writeVal = PresetWriteValue.News -> Some(PresetReadValue.News)
    [] OTHER -> None

\* Math.min and Math.max on integers
min(a, b) == IF a <= b THEN a ELSE b
max(a, b) == IF a >= b THEN a ELSE b

\* Buffer.from stores each number as a byte, modulo 256
byte(v) == v % 256

formatA(cmdId, subCmdId, value) == <<170, cmdId, subCmdId, 1, byte(value)>>
formatB(cmdId, value) == <<170, cmdId, byte(value), 0>>

eqCommand(subCmdId, value) ==
  [characteristicUuid |-> CharUUID.EqControl, data |-> formatA(3, subCmdId, value)]

setVolume(volume) == eqCommand(2, max(0, min(36, volume)))
setBass(bass) == eqCommand(1, max(0, min(20, bass)))
setTreble(treble) == eqCommand(0, max(0, min(20, treble)))
setCenterVolume(center) == eqCommand(3, max(0, min(30, center)))
setRearVolume(rear) == eqCommand(10, max(0, min(30, rear)))
setBalanceUnclamped(balance) ==
  [characteristicUuid |-> CharUUID.AudioPath, data |-> formatA(4, 0, balance)]

setBalance(balance) ==
  [characteristicUuid |-> CharUUID.AudioPath,
   data |-> formatA(4, 0, max(0, min(100, balance)))]
setMute(muted) == eqCommand(9, IF muted THEN 1 ELSE 0)
setQuietMode(on) == eqCommand(4, IF on THEN 1 ELSE 0)
setPower(on) ==
  [characteristicUuid |-> CharUUID.AudioPath,
   data |-> formatA(4, 1, IF on THEN 1 ELSE 0)]
setPreset(preset) ==
  [characteristicUuid |-> CharUUID.EqControl, data |-> formatB(3, preset)]
setSource(source) ==
  [characteristicUuid |-> CharUUID.Source, data |-> formatB(7, source)]

\* no command
NoCommand == [characteristicUuid |-> "", data |-> <<>>]

\* ---- LovesacDevice: the notification handler ----

\* dev.last describes the handling of the latest notification: what was
\* parsed, what applyResponse returned ("" when it was not called), how
\* many listeners were called and with what (log holds the calls in the
\* order they were made, as <<listener, code, value>>); dev.seen holds the codes
\* whose status was applied so far, dev.repeat says that the notification
\* before was the same frame and changed the state, dev.sent is the command
\* the latest device verb handed to the supervisor
NoNote == [parsed |-> undefined, changed |-> "", calls |-> 0, arg |-> <<>>,
           first |-> FALSE, versionCalls |-> 0, log |-> <<>>]

\* the listeners registered by onStateChange, in the order of registration
stateListeners == [i \in 1..NumListeners |-> i]

broadcastFirst(listeners, throwers, log, code, value) ==
  IF listeners = <<>> THEN log
  ELSE Append(log, <<Head(listeners), code, value>>)

listenerErrorUncaught(threw) == threw

\* try { listener(code, value) } catch (err) { this.log.error(...) }:
\* does what the listener threw end the loop?
listenerErrorEndsLoop(threw) == FALSE

RECURSIVE broadcast(_, _, _, _, _)
\* for (const listener of this.stateListeners) listener(code, value);
\* throwers are the listeners that throw when called
broadcast(listeners, throwers, log, code, value) ==
  IF listeners = <<>> THEN log
  ELSE LET called == Append(log, <<Head(listeners), code, value>>)
       IN IF listenerErrorEndsLoop(Head(listeners) \in throwers)
          THEN called
          ELSE broadcast(Tail(listeners), throwers, called, code, value)

\* pollTimer = null
NoInterval == 0

NewDevice ==
  [state |-> createDefaultState, stateInitialized |-> FALSE,
   mcuVersion |-> "", count |-> 0, data |-> <<>>, last |-> NoNote,
   seen |-> {}, repeat |-> FALSE, sent |-> NoCommand,
   pollTimer |-> NoInterval, throwers |-> {}]

isMcuVersion(d, type) == type = 1

\* type === 0x01 && !this.mcuVersion
isFirstMcuVersion(d, type) == type = 1 /\ d.mcuVersion = ""

versionResponseAsStatus(d, data) ==
  LET r == applyResponse(d.state, [defined |-> TRUE,
                                   code |-> data[Len(data) - 1],
                                   value |-> data[Len(data)]])
  IN IF r.changed = "true"
     THEN [d EXCEPT !.state = r.state, !.last.changed = "true"]
     ELSE d

\* the version branch of handleNotification; each of the version
\* listeners (as many as state listeners) is called once
versionResponse(d, data) ==
  LET type == data[6]
      major == data[7]
      minor == data[8]
      ver == ToString(major) \o "." \o ToString(minor)
  IN IF isFirstMcuVersion(d, type)
     THEN [d EXCEPT !.mcuVersion = ver, !.last.versionCalls = NumListeners]
     ELSE d

handleNotification(d0, data) ==
  LET d == [d0 EXCEPT !.last = NoNote]
  IN IF Len(data) >= 8 /\ data[3] = 170 /\ data[4] = 1 /\ data[5] = 3
     THEN versionResponse(d, data)
     ELSE LET parsed == parseNotification(data)
          IN IF ~parsed.defined THEN d
             ELSE LET r == applyResponse(d.state, parsed)
                      d1 == [d EXCEPT !.last.parsed = parsed,
                                      !.last.changed = r.changed]
                  IN IF r.changed = OUT_OF_RANGE THEN d1
                     ELSE LET d2 == [d1 EXCEPT
                                       !.state = r.state,
                                       !.stateInitialized = TRUE,
                                       !.last.first = parsed.code \notin d.seen,
                                       !.seen = @ \cup {parsed.code}]
                          IN IF r.changed = "true"
                             THEN LET log == broadcast(stateListeners,
                                                       d.throwers, <<>>,
                                                       parsed.code, parsed.value)
                                  IN [d2 EXCEPT
                                        !.last.calls = Len(log),
                                        !.last.log = log,
                                        !.last.arg = <<parsed.code, parsed.value>>]
                             ELSE d2

\* ---- the notifications the device may send ----

Header == <<204, 5, 170, 4>>
StatusFrame(code, value) == Header \o <<code, value>>
Codes == 0..16
Values == {0, 1, 3, 4, 20, 21, 30, 31, 36, 37, 100, 200}
Frames ==
  {StatusFrame(c, v) : c \in Codes, v \in Values}
  \cup {<<204, 5, 170, 1, 3, 1, 1, 71>>, <<204, 5, 170, 1, 3, 2, 2, 5>>,
        <<204, 5, 170, 1, 3, 1, 1, 72>>, <<204, 5, 170>>}

\* no function was called yet
NoCalc == [fn |-> "", arg |-> 0, data |-> <<>>, parsed |-> undefined,
           out |-> 0]

\* timeout 0 leaves time out: a timer may fire at any moment after arming
InitWith(configs, cap, timeout) ==
  /\ \E a \in configs :
       mgr = [queue |-> <<>>, processing |-> FALSE, idleTimer |-> "null",
              connected |-> FALSE, connectPromise |-> NoTask,
              resolvedAddress |-> a, address |-> a]
  /\ client = [connected |-> FALSE, peripheral |-> FALSE, chars |-> FALSE,
               resolvedAddress |-> "", handler |-> FALSE, listeners |-> 0]
  /\ env = [link |-> FALSE, notifying |-> FALSE, closing |-> FALSE,
            liveTimers |-> 0, cap |-> cap,
            idleTimeout |-> timeout, age |-> 0, quiet |-> timeout,
            intervals |-> {}, started |-> 0, period |-> 0, sincePoll |-> 0]
  /\ task = [t \in TaskIds |-> IdleTask]
  /\ cmds = <<>>
  /\ hist = [clean |-> TRUE, connects |-> 0, connFailed |-> FALSE,
             woke |-> [attempt |-> "none", waiter |-> "none"],
             idled |-> FALSE, delivered |-> 0,
             starts |-> 0, interval |-> 0, ensured |-> FALSE,
             down |-> TRUE, ticked |-> FALSE]
  /\ dev = NewDevice
  /\ calc = NoCalc

Init == InitWith(Configs, MaxCmds, 0)

\* ---- BleConnectionManager: idle timer ----

\* env.liveTimers counts the timers pending in the event loop, env.age the
\* ticks since the supervisor's timer was armed
clearIdleTimerDropsHandle(s) ==
  IF s.mgr.idleTimer # "null"
  THEN [s EXCEPT !.mgr.idleTimer = "null", !.env.age = 0]
  ELSE s

clearIdleTimer(s) ==
  IF s.mgr.idleTimer # "null"
  THEN [s EXCEPT !.mgr.idleTimer = "null",
                 !.env.liveTimers = IF s.mgr.idleTimer = "armed" THEN @ - 1 ELSE @,
                 !.env.age = 0]
  ELSE s

\* hist.idled: the disconnect that is pending was asked for by the timer
resetIdleTimerOnlyClears(s) == clearIdleTimer(s)

resetIdleTimer(s) ==
  LET c == clearIdleTimer(s)
  IN [c EXCEPT !.mgr.idleTimer = "armed", !.env.liveTimers = @ + 1,
               !.env.age = 0, !.hist.idled = FALSE]

isConnectedNever(s) == FALSE

isConnectedOwnFlag(s) == s.mgr.connected

isConnected(s) == s.mgr.connected /\ s.client.connected

\* ---- BleClient: disconnect ----

\* the assignments after the await of client.disconnect(), which are also
\* those of the peripheral's 'disconnect' handler
clientForget(s) ==
  [s EXCEPT !.client.connected = FALSE, !.client.peripheral = FALSE,
            !.client.chars = FALSE, !.client.listeners = 0]

clientMustAwaitDisconnect(s) == s.client.peripheral /\ s.client.connected

\* client.disconnect() called by someone who does nothing after it
clientDisconnect(s) ==
  IF clientMustAwaitDisconnect(s)
  THEN [s EXCEPT !.env.closing = TRUE]
  ELSE clientForget(s)

disconnectKeepsTimer(s) ==
  clientDisconnect([s EXCEPT !.mgr.connected = FALSE])

disconnectFlushesQueue(s) ==
  clientDisconnect([clearIdleTimer(s) EXCEPT !.mgr.connected = FALSE,
                                             !.mgr.queue = <<>>])

disconnect(s) ==
  clientDisconnect([clearIdleTimer(s) EXCEPT !.mgr.connected = FALSE])

onIdleTimeoutOnlyLogs(s) == s

\* the callback resetIdleTimer hands to setTimeout
onIdleTimeout(s) == disconnect(s)

\* ---- completion handles ----

\* item.resolve() or item.reject(); a handle settled before records that
\* it was settled again
settle(s, c, ok) ==
  [s EXCEPT !.cmds[c].status = IF @ = "pending"
                               THEN (IF ok THEN "resolved" ELSE "rejected")
                               ELSE "twice"]

\* hist.connects counts the client.connect calls (up to 2) for as long as
\* hist.clean: nothing failed, dropped, timed out or was called from outside
dirty(s) == [s EXCEPT !.hist.clean = FALSE, !.hist.connects = 0,
                      !.hist.ensured = FALSE]
countConnect(s) ==
  IF s.hist.clean /\ s.hist.connects < 2
  THEN [s EXCEPT !.hist.connects = @ + 1]
  ELSE s

pushFront(q, id) == <<id>> \o q

\* this.queue.push
push(q, id) == Append(q, id)

\* the argument doConnect hands to client.connect ("" stands for undefined)
connectArg(s) == s.mgr.address

\* ---- the drain loop and everything it calls synchronously ----

RECURSIVE drainLoop(_, _), ensureConnected(_, _), afterEnsure(_, _, _),
          doConnect(_, _), afterClientConnect(_, _), finishConnect(_, _, _),
          wake(_, _, _), write(_, _), onFailure(_, _), enqueue(_, _),
          processQueue(_), retry(_, _)

mayAlwaysStartDrain(s) == TRUE

\* may a call of processQueue() start draining?
mayStartDrain(s) == ~s.mgr.processing

stopDrainKeepsGuard(s, d) == [s EXCEPT !.task[d] = IdleTask]

\* the while loop ends and the finally block releases the guard
stopDrain(s, d) == [s EXCEPT !.mgr.processing = FALSE, !.task[d] = IdleTask]

rejectItemForgotten(s, d) == s

\* item.reject(retryErr)
rejectItem(s, d) == settle(s, s.task[d].item, FALSE)

firstAttemptOrSecond(s, d) == s.task[d].attempt <= 2

\* is the failure caught by the outer catch block (the first attempt)?
firstAttempt(s, d) == s.task[d].attempt = 1

processQueue(s) ==
  IF ~mayStartDrain(s) \/ \A d \in DrainIds : s.task[d].pc # "idle"
  THEN s
  ELSE LET d == CHOOSE x \in DrainIds : s.task[x].pc = "idle"
       IN drainLoop([s EXCEPT !.mgr.processing = TRUE], d)

enqueue(s, kind) ==
  LET id == Len(s.cmds) + 1
      h == [kind |-> kind, status |-> "pending"]
  IN processQueue([s EXCEPT !.cmds = Append(@, h),
                            !.mgr.queue = push(@, id)])

\* one evaluation of the while condition and, if it holds, the shift
drainLoop(s, d) ==
  IF s.mgr.queue = <<>>
  THEN stopDrain(s, d)
  ELSE LET item == Head(s.mgr.queue)
       IN ensureConnected(
            [s EXCEPT !.mgr.queue = Tail(@),
                      !.task[d] = [IdleTask EXCEPT !.pc = "run",
                                                   !.item = item,
                                                   !.attempt = 1]], d)

mustCoalesceNever(s) == FALSE

\* must ensureConnected() await the attempt in flight?
mustCoalesce(s) == s.mgr.connectPromise # NoTask

coalescedOutcomeSwallowed(ok) == TRUE

\* what `await this.connectPromise; return` hands to the second caller
coalescedOutcome(ok) == ok

clearConnectPromiseOnSuccess(s, ok) ==
  IF ok THEN [s EXCEPT !.mgr.connectPromise = NoTask] ELSE s

\* the finally block of ensureConnected
clearConnectPromise(s, ok) == [s EXCEPT !.mgr.connectPromise = NoTask]

ensureConnected(s, t) ==
  LET s0 == s
  IN IF isConnected(s0)
     THEN afterEnsure(resetIdleTimer(s0), t, TRUE)
     ELSE IF mustCoalesce(s0)
          THEN [s0 EXCEPT !.task[t].pc = "wait",
                          !.task[t].waitOn = s0.mgr.connectPromise]
          ELSE doConnect([s0 EXCEPT !.mgr.connectPromise = t], t)

\* doConnect up to the await of client.connect, and client.connect up to
\* its first await
doConnect(s, t) ==
  LET s2 == [countConnect(s) EXCEPT !.hist.connFailed = FALSE,
                                    !.task[t].conns = @ + 1]
  IN IF s2.client.connected
     THEN afterClientConnect(s2, t)
     ELSE [s2 EXCEPT !.task[t].pc = "scan", !.task[t].waitOn = NoTask]

removeAllListenersKeeps(n) == n

\* upstream.removeAllListeners('data'): the listeners left on the
\* characteristic
removeAllListeners(n) == 0

\* doConnect after client.connect resolved: pin the address, then
\* subscribeNotifications up to its await
afterClientConnect(s, t) ==
  LET s1 == IF s.mgr.address = "" /\ s.client.resolvedAddress # ""
            THEN [s EXCEPT !.mgr.resolvedAddress = s.client.resolvedAddress]
            ELSE s
      s2 == [s1 EXCEPT !.client.handler = TRUE]
  IN IF ~s2.client.chars
     THEN finishConnect(s2, t, FALSE)
     ELSE [s2 EXCEPT !.client.listeners = removeAllListeners(@) + 1,
                     !.task[t].pc = "sub"]

\* the reconnect callback LovesacDevice registers: requestStateRefresh()
\* up to its first await
onReconnectNothing(s) == s

onReconnect(s) == enqueue(s, "devinfo")

\* the end of doConnect (success, or the catch), the finally of the
\* ensureConnected that started it, and the callers that awaited it
finishConnect(s, t, ok) ==
  LET s1 == IF ok
            THEN onReconnect(resetIdleTimer([s EXCEPT !.mgr.connected = TRUE]))
            ELSE [s EXCEPT !.mgr.connected = FALSE,
                           !.hist.connFailed = TRUE]
      s2 == clearConnectPromise(s1, ok)
      waiters == {w \in TaskIds : s2.task[w].pc = "wait" /\ s2.task[w].waitOn = t}
  IN wake(afterEnsure([s2 EXCEPT !.task[t].waitOn = NoTask], t, ok),
          waiters, ok)

wake(s, waiters, ok) ==
  IF waiters = {} THEN s
  ELSE LET w == CHOOSE x \in waiters : \A y \in waiters : x <= y
           got == coalescedOutcome(ok)
           s1 == [s EXCEPT !.hist.woke =
                     [attempt |-> IF ok THEN "ok" ELSE "error",
                      waiter |-> IF got THEN "ok" ELSE "error"],
                           !.task[w].waitOn = NoTask]
       IN wake(afterEnsure(s1, w, got), waiters \ {w}, ok)

\* the caller of ensureConnected() continues
afterEnsure(s, t, ok) ==
  IF t = Ext
  THEN [s EXCEPT !.task[Ext] = IdleTask]
  ELSE IF ok THEN write([s EXCEPT !.task[t].pc = "run"], t)
       ELSE onFailure([s EXCEPT !.task[t].pc = "run"], t)

\* client.write up to its await
write(s, d) ==
  LET item == s.task[d].item
      s1 == [s EXCEPT !.task[d].writes = @ + 1]
  IN IF ~s1.client.chars
     THEN onFailure(s1, d)
     ELSE [s1 EXCEPT !.task[d].pc = "write"]

\* the retry block of processQueue
retry(s, d) == ensureConnected([s EXCEPT !.task[d].pc = "run"], d)

\* the two catch blocks of processQueue
onFailure(s, d) ==
  LET item == s.task[d].item
  IN IF firstAttempt(s, d)
     THEN LET s1 == [s EXCEPT !.mgr.connected = FALSE,
                              !.task[d].attempt = @ + 1,
                              !.task[d].discs = @ + 1]
          IN IF clientMustAwaitDisconnect(s1)
             THEN [s1 EXCEPT !.task[d].pc = "cdisc"]
             ELSE retry(clientForget(s1), d)
     ELSE drainLoop(rejectItem(s, d), d)

\* ---- the physical link goes down ----

RECURSIVE resume(_, _)
resume(s, ds) ==
  IF ds = {} THEN s
  ELSE LET d == CHOOSE x \in ds : \A y \in ds : x <= y
       IN resume(retry(s, d), ds \ {d})

linkDown(s) ==
  LET s1 == [clientForget(s) EXCEPT !.env.link = FALSE,
                                    !.env.notifying = FALSE,
                                    !.env.closing = FALSE,
                                    !.hist.delivered = 0,
                                    !.hist.idled = FALSE]
  IN resume(s1, {d \in DrainIds : s1.task[d].pc = "cdisc"})

\* ---- actions ----

\* a device verb of LovesacDevice: encode, then enqueue
UserCommand ==
  /\ Len(cmds) < env.cap
  /\ Become(enqueue(St, "user"))

\* requestStateRefresh() called by the poll timer or by startPolling
Poll ==
  /\ Len(cmds) < env.cap
  /\ Become(enqueue(St, "devinfo"))

CallEnsureConnected ==
  /\ task[Ext].pc = "idle"
  /\ Become(ensureConnected(
       dirty([St EXCEPT !.task[Ext].pc = "run"]), Ext))

\* the same call, with a note of what it found; hist.ensured: the last
\* call from outside found the supervisor connected, and nothing failed
\* since
CallEnsureConnectedNoted ==
  /\ task[Ext].pc = "idle"
  /\ Become([ensureConnected(
               dirty([St EXCEPT !.task[Ext].pc = "run"]), Ext)
               EXCEPT !.hist.ensured = isConnected(St)])

\* the platform's shutdown handler
CallDisconnect ==
  /\ TRUE
  /\ Become(disconnect(dirty(St)))

\* the event loop runs the timer's callback, not before its delay passed
IdleFire ==
  /\ mgr.idleTimer = "armed"
  /\ env.liveTimers > 0
  /\ env.age >= env.idleTimeout
  /\ LET s1 == onIdleTimeout([St EXCEPT !.mgr.idleTimer = "expired",
                                        !.env.liveTimers = @ - 1,
                                        !.hist.clean = FALSE,
                                        !.hist.connects = 0])
     IN Become([s1 EXCEPT !.hist.idled = s1.env.closing])

ScanTargets(arg) == IF arg = "" THEN Devices ELSE {arg} \cap Devices

ScanDone(t) ==
  /\ task[t].pc = "scan"
  /\ \E r \in ScanTargets(connectArg(St)) \cup {"none"} :
       IF r = "none"
       THEN Become(finishConnect(dirty(St), t, FALSE))
       ELSE Become([St EXCEPT !.client.resolvedAddress = r,
                              !.task[t].pc = "link"])

LinkDone(t) ==
  /\ task[t].pc = "link"
  /\ \E ok \in BOOLEAN :
       IF ok
       THEN Become([St EXCEPT !.env.link = TRUE,
                              !.client.connected = TRUE,
                              !.client.peripheral = TRUE,
                              !.task[t].pc = "disc"])
       ELSE Become(finishConnect(dirty(St), t, FALSE))

\* discovery hands over characteristics only over a link that is up
DiscoverDone(t) ==
  /\ task[t].pc = "disc"
  /\ \E ok \in BOOLEAN :
       IF ok
       THEN /\ env.link
            /\ Become(afterClientConnect(
                 [St EXCEPT !.client.chars = TRUE, !.client.listeners = 0], t))
       ELSE Become(finishConnect(dirty(St), t, FALSE))

\* the device acknowledges the subscription only over a link that is up
SubscribeDone(t) ==
  /\ task[t].pc = "sub"
  /\ \E ok \in BOOLEAN :
       IF ok
       THEN /\ Len(cmds) < env.cap
            /\ env.link
            /\ Become(finishConnect(
                 [St EXCEPT !.env.notifying = TRUE], t, TRUE))
       ELSE Become(finishConnect(dirty(St), t, FALSE))

writeResolvedOnly(s, d) ==
  LET item == s.task[d].item
      s0 == [resetIdleTimer(s) EXCEPT !.env.quiet = 0]
  IN drainLoop(settle(s0, item, TRUE), d)

\* the continuation of requestStateRefresh() after its first enqueue
\* resolved runs once the drain loop has suspended again
writeResolved(s, d) ==
  LET item == s.task[d].item
      s0 == [resetIdleTimer(s) EXCEPT !.env.quiet = 0]
      s1 == drainLoop(settle(s0, item, TRUE), d)
  IN IF s.cmds[item].kind = "devinfo" THEN enqueue(s1, "verinfo") ELSE s1

WriteDone(d) ==
  /\ task[d].pc = "write"
  /\ \E ok \in BOOLEAN :
       IF ok
       THEN /\ cmds[task[d].item].kind = "devinfo" => Len(cmds) < env.cap
            /\ Become(writeResolved(St, d))
       ELSE Become(onFailure(dirty(St), d))

\* a requested disconnectAsync completes
DisconnectDone ==
  /\ env.link
  /\ env.closing \/ \E d \in DrainIds : task[d].pc = "cdisc"
  /\ Become(linkDown(St))

\* the device or the radio drops the link
LinkDrop ==
  /\ env.link
  /\ Become(linkDown(dirty(St)))

onNotificationNoReset(s) == s

\* the wrapper doConnect hands to subscribeNotifications
onNotification(s) == resetIdleTimer(s)

RECURSIVE emitData(_, _)
\* the characteristic emits 'data': each of its n listeners calls the
\* client's notificationHandler
emitData(s, n) ==
  IF n = 0 \/ ~s.client.handler THEN s
  ELSE emitData([onNotification(s) EXCEPT !.hist.delivered = @ + 1], n - 1)

\* an inbound notification
Notify ==
  /\ env.link /\ env.notifying
  /\ Become(emitData([St EXCEPT !.env.quiet = 0, !.hist.delivered = 0],
                     client.listeners))

\* a tick of the clock
Tick ==
  /\ (mgr.idleTimer = "armed" /\ env.age < env.idleTimeout)
       \/ env.quiet < env.idleTimeout
  /\ mgr' = mgr /\ client' = client /\ task' = task
  /\ cmds' = cmds /\ hist' = hist /\ dev' = dev /\ calc' = calc
  /\ env' = [env EXCEPT
               !.age = IF mgr.idleTimer = "armed" /\ @ < env.idleTimeout
                       THEN @ + 1 ELSE @,
               !.quiet = IF @ < env.idleTimeout THEN @ + 1 ELSE @]

Next ==
  \/ UserCommand
  \/ Poll
  \/ IdleFire
  \/ CallDisconnect
  \/ \E t \in TaskIds : ScanDone(t)
  \/ \E t \in TaskIds : LinkDone(t)
  \/ \E t \in TaskIds : DiscoverDone(t)
  \/ \E t \in TaskIds : SubscribeDone(t)
  \/ \E d \in DrainIds : WriteDone(d)
  \/ DisconnectDone
  \/ LinkDrop
  \/ Notify

Spec == Init /\ [][Next]_vars

\* with a second caller of the public ensureConnected()
NextExt ==
  \/ Next
  \/ CallEnsureConnected

SpecExt == InitWith({"A"}, MaxCmds, 0) /\ [][NextExt]_vars

NextEnsure ==
  \/ Next
  \/ CallEnsureConnectedNoted

SpecEnsure == InitWith({"A"}, MaxEnsureCmds, 0) /\ [][NextEnsure]_vars

\* every transport operation that was started completes
Completion ==
  /\ \A t \in TaskIds : WF_vars(ScanDone(t)) /\ WF_vars(LinkDone(t))
  /\ \A t \in TaskIds : WF_vars(DiscoverDone(t)) /\ WF_vars(SubscribeDone(t))
  /\ \A d \in DrainIds : WF_vars(WriteDone(d))
  /\ WF_vars(DisconnectDone)

SpecLive == InitWith({"A"}, MaxLiveCmds, 0) /\ [][Next]_vars /\ Completion

\* with a clock; a timer that is due and stays armed fires
NextTimed ==
  \/ Next
  \/ Tick

SpecTimed ==
  /\ InitWith({"A"}, MaxTimedCmds, IdleTimeout)
  /\ [][NextTimed]_vars
  /\ Completion
  /\ WF_vars(IdleFire)
  /\ WF_vars(Tick)

\* with polling disabled (pollInterval 0)
NextNoPoll ==
  \/ UserCommand
  \/ IdleFire
  \/ CallDisconnect
  \/ \E t \in TaskIds : ScanDone(t)
  \/ \E t \in TaskIds : LinkDone(t)
  \/ \E t \in TaskIds : DiscoverDone(t)
  \/ \E t \in TaskIds : SubscribeDone(t)
  \/ \E d \in DrainIds : WriteDone(d)
  \/ DisconnectDone
  \/ LinkDrop
  \/ Notify

SpecNoPoll == InitWith(Configs, MaxCmds, 0) /\ [][NextNoPoll]_vars

\* ---- the notification handler on its own ----

\* the supervisor's wrapper hands a notification to the device
Receive(data) ==
  /\ dev.count < MaxNotes
  /\ dev' = [handleNotification(dev, data) EXCEPT
               !.count = @ + 1,
               !.data = data,
               !.repeat = data = dev.data /\ dev.last.changed = "true"]
  /\ UNCHANGED <<mgr, client, env, task, cmds, hist, calc>>

NextStore == \E data \in Frames : Receive(data)

SpecStore == InitWith({"A"}, 0, 0) /\ [][NextStore]_vars

\* ---- LovesacDevice: the device verbs ----

\* the verbs up to their call of connectionManager.enqueue: the command
\* they encode and what they do to the fields of the device
devSetPower(d, on) == [d EXCEPT !.sent = setPower(on)]
devSetVolumeOptimistic(d, volume) ==
  [d EXCEPT !.sent = setVolume(volume),
            !.state.volume = max(0, min(36, volume))]

devSetVolume(d, volume) == [d EXCEPT !.sent = setVolume(volume)]
devVolumeUpByOne(d, step) == devSetVolume(d, min(MAX_VOLUME, d.state.volume + 1))

devVolumeUp(d, step) == devSetVolume(d, min(MAX_VOLUME, d.state.volume + step))
devVolumeDown(d, step) == devSetVolume(d, max(0, d.state.volume - step))
devSetMute(d, muted) == [d EXCEPT !.sent = setMute(muted)]
devSetQuietMode(d, on) == [d EXCEPT !.sent = setQuietMode(on)]
devSetSource(d, source) == [d EXCEPT !.sent = setSource(source)]

devSetPresetPessimistic(d, preset) == [d EXCEPT !.sent = setPreset(preset)]

devSetPreset(d, preset) ==
  LET readVal == presetWriteToRead(preset)
      d1 == IF readVal.defined
            THEN [d EXCEPT !.state.preset = readVal.value]
            ELSE d
  IN [d1 EXCEPT !.sent = setPreset(preset)]

\* the verb's command is enqueued; d is the device as the verb leaves it
Verb(d) ==
  /\ Len(cmds) < env.cap
  /\ LET s == enqueue(St, "user")
     IN /\ mgr' = s.mgr /\ client' = s.client /\ env' = s.env
        /\ task' = s.task /\ cmds' = s.cmds /\ hist' = s.hist
        /\ dev' = d /\ calc' = calc

\* the arguments the accessories call the verbs with
Steps == {1, 40}
Volumes == {-1, 40}
Presets == {PresetWriteValue.Movies, PresetWriteValue.Manual}

SetPower == \E on \in BOOLEAN : Verb(devSetPower(dev, on))
SetVolume == \E volume \in Volumes : Verb(devSetVolume(dev, volume))
VolumeUp == \E step \in Steps : Verb(devVolumeUp(dev, step))
VolumeDown == \E step \in Steps : Verb(devVolumeDown(dev, step))
SetMute == \E muted \in BOOLEAN : Verb(devSetMute(dev, muted))
SetQuietMode == \E on \in BOOLEAN : Verb(devSetQuietMode(dev, on))
SetSource == Verb(devSetSource(dev, SourceValue.Bluetooth))
SetPreset == \E preset \in Presets : Verb(devSetPreset(dev, preset))

RECURSIVE deliver(_, _, _)
\* the device's handler is called once by each listener of the
\* characteristic; the record of the handling is not kept here
deliver(d, data, n) ==
  IF n = 0 THEN d
  ELSE deliver([handleNotification(d, data) EXCEPT !.last = NoNote,
                                                  !.seen = {}],
               data, n - 1)

\* the statuses the device reports while verbs are called
DevFrames ==
  {StatusFrame(ResponseCode.Volume, v) : v \in {35, 36, 37}}
  \cup {StatusFrame(ResponseCode.Preset, v) : v \in {3, 4}}

\* an inbound notification with its bytes
NotifyData ==
  /\ env.link /\ env.notifying
  /\ \E data \in DevFrames :
       LET s == emitData([St EXCEPT !.env.quiet = 0, !.hist.delivered = 0],
                         client.listeners)
       IN /\ mgr' = s.mgr /\ client' = s.client /\ env' = s.env
          /\ task' = s.task /\ cmds' = s.cmds /\ hist' = s.hist
          /\ dev' = deliver(dev, data, s.hist.delivered) /\ calc' = calc

NextDev ==
  \/ SetPower
  \/ SetVolume
  \/ VolumeUp
  \/ VolumeDown
  \/ SetMute
  \/ SetQuietMode
  \/ SetSource
  \/ SetPreset
  \/ Poll
  \/ IdleFire
  \/ \E t \in TaskIds : ScanDone(t)
  \/ \E t \in TaskIds : LinkDone(t)
  \/ \E t \in TaskIds : DiscoverDone(t)
  \/ \E t \in TaskIds : SubscribeDone(t)
  \/ \E d \in DrainIds : WriteDone(d)
  \/ DisconnectDone
  \/ LinkDrop
  \/ NotifyData

SpecDev == InitWith({"A"}, MaxDevCmds, 0) /\ [][NextDev]_vars

\* the device on its own: verbs and notifications in any order, while the
\* operations of the transport stay pending
NextVerbs ==
  \/ SetPower
  \/ SetVolume
  \/ VolumeUp
  \/ VolumeDown
  \/ SetMute
  \/ SetQuietMode
  \/ SetSource
  \/ SetPreset
  \/ \E data \in DevFrames : Receive(data)

SpecVerbs == InitWith({"A"}, MaxVerbCmds, 0) /\ [][NextVerbs]_vars

\* ---- LovesacDevice: listeners that throw ----

\* a notification is handed to the device while the listeners in throwing
\* throw when they are called
ReceiveWith(data, throwing) ==
  /\ dev.count < MaxNotes
  /\ dev' = [handleNotification([dev EXCEPT !.throwers = throwing], data)
               EXCEPT !.count = @ + 1, !.data = data]
  /\ UNCHANGED <<mgr, client, env, task, cmds, hist, calc>>

\* the statuses the device reports while listeners throw
ListenFrames ==
  DevFrames \cup {StatusFrame(ResponseCode.Mute, v) : v \in {0, 1}}

NextListen ==
  \E data \in ListenFrames : \E throwing \in SUBSET (1..NumListeners) :
    ReceiveWith(data, throwing)

SpecListen == InitWith({"A"}, 0, 0) /\ [][NextListen]_vars

\* ---- LovesacDevice: background polling ----

\* setInterval: a new handle; env.intervals are the intervals not cleared
setInterval(s, seconds) ==
  [s EXCEPT !.env.started = @ + 1,
            !.env.intervals = @ \cup {s.env.started + 1},
            !.env.period = seconds,
            !.env.sincePoll = 0]

clearInterval(s, handle) == [s EXCEPT !.env.intervals = @ \ {handle}]

\* requestStateRefresh() up to its first await
requestStateRefresh(s) == enqueue(s, "devinfo")

startPollingAlways(s, d, intervalSeconds) ==
  LET s1 == setInterval(requestStateRefresh(s), intervalSeconds)
  IN [s |-> s1, d |-> [d EXCEPT !.pollTimer = s1.env.started]]

\* the supervisor and the device as startPolling leaves them
startPolling(s, d, intervalSeconds) ==
  IF intervalSeconds <= 0
  THEN [s |-> s, d |-> d]
  ELSE LET s1 == setInterval(requestStateRefresh(s), intervalSeconds)
       IN [s |-> s1, d |-> [d EXCEPT !.pollTimer = s1.env.started]]

stopPolling(s, d) ==
  IF d.pollTimer # NoInterval
  THEN [s |-> clearInterval(s, d.pollTimer),
        d |-> [d EXCEPT !.pollTimer = NoInterval]]
  ELSE [s |-> s, d |-> d]

BecomeBoth(r) ==
  /\ mgr' = r.s.mgr /\ client' = r.s.client /\ env' = r.s.env
  /\ task' = r.s.task /\ cmds' = r.s.cmds
  /\ hist' = [r.s.hist EXCEPT !.down = @ \/ ~r.s.env.link]
  /\ dev' = r.d /\ calc' = calc

\* the intervals the accessory is configured with: polling disabled, or
\* a poll every second
PollIntervals == {0, 1}

\* the accessory's constructor, or another caller, starts polling
StartPollingWith(intervalSeconds) ==
  /\ Len(cmds) < env.cap
  /\ BecomeBoth(startPolling([St EXCEPT !.hist.starts = @ + 1,
                                        !.hist.interval = intervalSeconds],
                             dev, intervalSeconds))

StartPolling ==
  /\ hist.starts < MaxStarts
  /\ \E intervalSeconds \in PollIntervals : StartPollingWith(intervalSeconds)

\* the event loop runs the callback of an interval that was not cleared,
\* not before its period passed; hist.ticked: a poll tick has fired,
\* hist.down: the link was down at some moment since the last one
PollFire ==
  /\ env.intervals # {}
  /\ env.sincePoll >= env.period \/ env.idleTimeout = 0
  /\ Len(cmds) < env.cap
  /\ Become([requestStateRefresh([St EXCEPT !.hist.down = FALSE,
                                            !.hist.ticked = TRUE])
               EXCEPT !.env.sincePoll = 0])

StopPolling == BecomeBoth(stopPolling(St, dev))

\* the platform's shutdown handler: stopPolling(), then disconnect()
Shutdown ==
  LET r == stopPolling(St, dev)
  IN BecomeBoth([r EXCEPT !.s = disconnect(dirty(@))])

NextPoll ==
  \/ StartPolling
  \/ PollFire
  \/ StopPolling
  \/ Shutdown
  \/ IdleFire
  \/ \E t \in TaskIds : ScanDone(t)
  \/ \E t \in TaskIds : LinkDone(t)
  \/ \E t \in TaskIds : DiscoverDone(t)
  \/ \E t \in TaskIds : SubscribeDone(t)
  \/ \E d \in DrainIds : WriteDone(d)
  \/ DisconnectDone
  \/ LinkDrop
  \/ Notify

SpecPoll == InitWith({"A"}, MaxPollCmds, 0) /\ [][NextPoll]_vars

\* ---- polling with a clock ----

\* pollInterval is configured larger than idleTimeout
PollInterval == IdleTimeout + 1

\* the accessory's constructor starts polling, once
Setup ==
  /\ hist.starts = 0
  /\ StartPollingWith(PollInterval)

IdleDue == mgr.idleTimer = "armed" /\ env.age >= env.idleTimeout
PollDue == env.intervals # {} /\ env.sincePoll >= env.period

\* an operation of the transport is pending
TransportBusy == env.closing \/ \E t \in TaskIds : task[t].pc # "idle"

\* a tick of the clock: the operations of the transport take less than a
\* tick, and a timer that is due fires before the clock goes on
TickPolled ==
  /\ ~TransportBusy /\ ~IdleDue /\ ~PollDue
  /\ env.intervals # {}
  /\ mgr' = mgr /\ client' = client /\ task' = task
  /\ cmds' = cmds /\ hist' = hist /\ dev' = dev /\ calc' = calc
  /\ env' = [env EXCEPT
               !.age = IF mgr.idleTimer = "armed" THEN @ + 1 ELSE @,
               !.quiet = IF @ < env.idleTimeout THEN @ + 1 ELSE @,
               !.sincePoll = @ + 1]

\* the device's notifications follow the writes of a poll within the tick
NotifyBurst == env.sincePoll = 0 /\ Notify

NextPolled ==
  \/ Setup
  \/ PollFire
  \/ Shutdown
  \/ TickPolled
  \/ IdleFire
  \/ \E t \in TaskIds : ScanDone(t)
  \/ \E t \in TaskIds : LinkDone(t)
  \/ \E t \in TaskIds : DiscoverDone(t)
  \/ \E t \in TaskIds : SubscribeDone(t)
  \/ \E d \in DrainIds : WriteDone(d)
  \/ DisconnectDone
  \/ LinkDrop
  \/ NotifyBurst

SpecPolled == InitWith({"A"}, MaxPolledCmds, IdleTimeout) /\ [][NextPolled]_vars

\* ---- LovesacDevice: the volume scale ----

\* Math.round(num / den) for num >= 0, den > 0: the nearest integer, a
\* half rounding up. The source computes the quotient in floating point;
\* for the arguments below the exact quotient is an integer or at least
\* 1/50 away from a half, so the rounding error cannot change the result.
round(num, den) == (2 * num + den) \div (2 * den)

volumeToPercentUnscaled(volume) == volume

volumeToPercent(volume) == round(volume * 100, MAX_VOLUME)
percentToVolume(percent) == round(percent * MAX_VOLUME, 100)

\* ---- the pure functions of the protocol on their own ----

\* frames of every length from 0 to 9, with the version prefix and without
VersionPrefix == <<204, 5, 170, 1, 3>>
CodecFrames ==
  {<<>>, <<204>>, <<204, 5>>, <<204, 5, 170>>}
  \cup {<<204, 5, c, v>> : c \in {0, 1, 15, 16}, v \in {0, 255}}
  \cup {StatusFrame(c, v) : c \in Codes, v \in {0, 37, 255}}
  \cup {VersionPrefix \o t : t \in {<<>>, <<20>>, <<5, 1>>, <<1, 1, 71>>,
                                     <<2, 2, 5>>, <<1, 1, 7, 1>>, <<3, 0, 16, 0>>}}
  \cup {<<204, 6, 170, 4, 0, 0>> \o StatusFrame(c, v) : c \in {1, 16}, v \in {36}}

Inputs == (0 - MaxInput)..MaxInput

\* a pure function keeps nothing between calls: one call in a behaviour
Called(fn, arg, data, parsed, out) ==
  /\ calc = NoCalc
  /\ calc' = [fn |-> fn, arg |-> arg, data |-> data, parsed |-> parsed,
              out |-> out]
  /\ UNCHANGED <<mgr, client, env, task, cmds, hist, dev>>

Parse ==
  \E data \in CodecFrames :
    Called("parseNotification", 0, data, parseNotification(data), 0)

EncodeVolume == \E x \in Inputs : Called("setVolume", x, setVolume(x).data, undefined, 0)
EncodeBass == \E x \in Inputs : Called("setBass", x, setBass(x).data, undefined, 0)
EncodeTreble == \E x \in Inputs : Called("setTreble", x, setTreble(x).data, undefined, 0)
EncodeCenterVolume ==
  \E x \in Inputs : Called("setCenterVolume", x, setCenterVolume(x).data, undefined, 0)
EncodeRearVolume ==
  \E x \in Inputs : Called("setRearVolume", x, setRearVolume(x).data, undefined, 0)
EncodeBalance == \E x \in Inputs : Called("setBalance", x, setBalance(x).data, undefined, 0)

VolumeToPercent ==
  \E v \in 0..MAX_VOLUME : Called("volumeToPercent", v, <<>>, undefined, volumeToPercent(v))
PercentToVolume ==
  \E p \in 0..100 : Called("percentToVolume", p, <<>>, undefined, percentToVolume(p))

NextCodec ==
  \/ Parse
  \/ EncodeVolume
  \/ EncodeBass
  \/ EncodeTreble
  \/ EncodeCenterVolume
  \/ EncodeRearVolume
  \/ EncodeBalance
  \/ VolumeToPercent
  \/ PercentToVolume

SpecCodec == InitWith({"A"}, 0, 0) /\ [][NextCodec]_vars

TypeOK ==
  /\ mgr.processing \in BOOLEAN
  /\ mgr.idleTimer \in {"null", "armed", "expired"}
  /\ Len(cmds) <= env.cap
  /\ env.link = client.connected

\* ---- vocabulary of the claims ----

Ids == 1..Len(cmds)
Settled(c) == cmds[c].status # "pending"
Active(d) == task[d].pc # "idle"
ActiveDrains == {d \in DrainIds : Active(d)}
Connecting == {t \in TaskIds : task[t].pc \in ConnPhases}
InQueue(c) == \E i \in 1..Len(mgr.queue) : mgr.queue[i] = c
Held(c) == \E d \in DrainIds : Active(d) /\ task[d].item = c

\* C1: commands are taken, written and settled in the order of their
\* enqueueing: a command is settled only after every earlier one, a drain
\* loop holds (connects for, writes, retries) a command only when every
\* earlier one is settled, and the queue holds the later ones in order.
C1_Fifo ==
  /\ \A a, b \in Ids : a < b /\ Settled(b) => Settled(a)
  /\ \A d \in DrainIds : Active(d) =>
       /\ \A a \in Ids : a < task[d].item => Settled(a)
       /\ \A i \in 1..Len(mgr.queue) : task[d].item < mgr.queue[i]
  /\ \A i, j \in 1..Len(mgr.queue) : i < j => mgr.queue[i] < mgr.queue[j]

\* a retried command is being written while a later user command and the
\* refresh command of the reconnect callback wait behind it
C1_Witness ==
  /\ task[1].pc = "write" /\ task[1].attempt = 2
  /\ Len(mgr.queue) >= 2
  /\ \E i \in 1..Len(mgr.queue) : cmds[mgr.queue[i]].kind = "devinfo"
  /\ \E a \in Ids : cmds[a].status = "rejected"

\* C2: at most one drain loop is active and at most one write is in
\* flight, and the guard is set exactly while a loop is active.
C2_SingleFlight ==
  /\ Cardinality(ActiveDrains) <= 1
  /\ Cardinality({d \in DrainIds : task[d].pc = "write"}) <= 1
  /\ mgr.processing <=> ActiveDrains # {}

\* commands were enqueued while the loop was suspended in a write
C2_Witness ==
  /\ task[1].pc = "write"
  /\ Len(mgr.queue) >= 2

\* C3: for the command a drain loop holds, client.write is called at most
\* twice and a connection is attempted at most twice, the second attempt
\* comes after exactly one client.disconnect() and reconnects before it
\* writes, there is no third, and the loop leaves a command only settled,
\* rejected only by the failure of the retry.
C3_OneRetry ==
  /\ [](\A d \in DrainIds : Active(d) =>
          /\ task[d].attempt \in {1, 2}
          /\ task[d].writes <= task[d].attempt
          /\ task[d].conns <= task[d].attempt
          /\ task[d].discs = task[d].attempt - 1
          /\ task[d].attempt = 2 /\ task[d].pc = "write" => task[d].conns >= 1)
  /\ [][\A d \in DrainIds :
          Active(d) /\ (~Active(d)' \/ task'[d].item # task[d].item) =>
            /\ cmds'[task[d].item].status \in {"resolved", "rejected"}
            /\ cmds'[task[d].item].status = "rejected" => task[d].attempt = 2]_vars

\* both the attempt and the retry connected and wrote
C3_Witness ==
  /\ task[1].pc = "write" /\ task[1].attempt = 2
  /\ task[1].writes = 2 /\ task[1].conns = 2

\* C4: a rejected command does not block the queue: a command is rejected
\* only by the failure of its retry, every pending command is in the queue
\* or held by the drain loop, a non-empty queue has a drain loop, a loop
\* starts each command at its first attempt, and the guard is released
\* with the loop.
C4_NoPoison ==
  /\ [](/\ \A c \in Ids : ~Settled(c) => InQueue(c) \/ Held(c)
        /\ mgr.queue # <<>> => mgr.processing
        /\ mgr.processing <=> ActiveDrains # {})
  /\ [][\A c \in Ids : ~Settled(c) /\ cmds'[c].status = "rejected" =>
          \E d \in DrainIds : task[d].item = c /\ task[d].attempt = 2]_vars
  /\ [][\A d \in DrainIds :
          Active(d)' /\ task'[d].item # task[d].item /\ task'[d].attempt # 2 =>
            task'[d].attempt = 1 /\ task'[d].discs = 0]_vars

\* the first command was rejected, the second resolved, and the queue has
\* drained and released the guard
C4_Witness ==
  /\ Len(cmds) >= 2
  /\ cmds[1].status = "rejected"
  /\ cmds[2].status = "resolved"
  /\ ~mgr.processing

\* C5: every enqueued command is eventually resolved or rejected (again
\* and again all the commands enqueued so far are settled), a handle is
\* never settled twice, and a settled handle keeps its outcome.
C5_SettledOnce ==
  /\ []<>(\A c \in Ids : Settled(c))
  /\ [](\A c \in Ids : cmds[c].status # "twice")
  /\ [][\A c \in Ids : Settled(c) => cmds'[c].status = cmds[c].status]_vars

\* one command was rejected and another resolved
C5_Witness ==
  /\ \E c \in Ids : cmds[c].status = "rejected"
  /\ \E c \in Ids : cmds[c].status = "resolved"
  /\ \A c \in Ids : Settled(c)

\* C6: at most one connection attempt is in flight, the remembered attempt
\* is the one in flight, a caller that finds one awaits that one, and it
\* gets that attempt's outcome.
C6_Coalesced ==
  /\ Cardinality(Connecting) <= 1
  /\ mgr.connectPromise # NoTask => Connecting = {mgr.connectPromise}
  /\ \A t \in TaskIds : task[t].pc = "wait" =>
       task[t].waitOn = mgr.connectPromise /\ task[t].waitOn # t
  /\ hist.woke.waiter = hist.woke.attempt

\* a second caller awaited an attempt that then failed
C6_Witness == hist.woke.attempt = "error" /\ hist.woke.waiter = "error"

\* C7: when the first three commands are user commands enqueued before the
\* first connection completed and nothing has failed, dropped or timed
\* out, client.connect has been called once, and the three are written
\* once each in their order.
C7_ThreeCommands ==
  (/\ hist.clean
   /\ Len(cmds) >= 3
   /\ \A c \in 1..3 : cmds[c].kind = "user")
  => /\ hist.connects = 1
     /\ \A c \in 1..3 : cmds[c].status \in {"pending", "resolved"}
     /\ \A a, b \in 1..3 : a < b /\ Settled(b) => Settled(a)
     /\ \A d \in DrainIds : Active(d) /\ task[d].item <= 3 =>
          /\ task[d].attempt = 1 /\ task[d].writes <= 1
          /\ \A a \in 1..3 : a < task[d].item => Settled(a)

\* the three were written and resolved over the one connection
C7_Witness ==
  /\ hist.clean /\ hist.connects = 1
  /\ Len(cmds) >= 3
  /\ \A c \in 1..3 : cmds[c].kind = "user" /\ cmds[c].status = "resolved"

\* C8: once an address is resolved it never changes, and every scan that
\* starts afterwards is for that address.
C8_Pinned ==
  [][/\ mgr.resolvedAddress # "" => mgr'.resolvedAddress = mgr.resolvedAddress
     /\ \A t \in TaskIds :
          mgr.resolvedAddress # "" /\ task[t].pc # "scan" /\ task'[t].pc = "scan"
            => connectArg(St') = mgr'.resolvedAddress]_vars

\* C9: a step that rejects a command leaves the supervisor disconnected
\* and the link down.
C9_CleanAfterReject ==
  [][(\E c \in Ids : ~Settled(c) /\ cmds'[c].status = "rejected")
       => ~mgr'.connected /\ ~env'.link]_vars

\* C10: from a failed connection attempt until the next one starts the
\* supervisor is disconnected and remembers no attempt; a remembered
\* attempt is always one in flight; and an enqueue that starts the drain
\* loop after a failed attempt calls client.connect for its command.
C10_FreshAttempt ==
  /\ [](hist.connFailed =>
          ~mgr.connected /\ ~isConnected(St) /\ mgr.connectPromise = NoTask)
  /\ [](mgr.connectPromise # NoTask =>
          task[mgr.connectPromise].pc \in ConnPhases)
  /\ [][hist.connFailed /\ ~mgr.processing /\ Len(cmds') > Len(cmds) =>
          \E d \in DrainIds :
            /\ task'[d].item = Len(cmds')
            /\ task'[d].conns >= 1]_vars

\* after a command was rejected without a write, the next command is in
\* the scan of its own first connection attempt
C10_Witness ==
  \E d \in DrainIds :
    /\ task[d].pc = "scan" /\ task[d].attempt = 1 /\ task[d].conns = 1
    /\ task[d].item >= 2
    /\ cmds[task[d].item - 1].status = "rejected"
    /\ ~mgr.connected /\ ~env.link

\* C11: idle release.  Whenever the supervisor is connected its idle timer
\* is pending; when the timer fires the supervisor is disconnected and the
\* transport is told to disconnect; a connected supervisor that has seen no
\* successful write and no notification for the idle timeout does not stay
\* so for ever, and a transport told to disconnect releases the link.
C11_IdleRelease ==
  /\ [](mgr.connected => mgr.idleTimer = "armed" /\ env.liveTimers = 1)
  /\ [][IdleFire => /\ ~mgr'.connected
                    /\ mgr'.idleTimer = "null"
                    /\ env'.link => env'.closing]_vars
  /\ [](mgr.connected /\ env.quiet >= env.idleTimeout =>
          <>(~mgr.connected \/ env.quiet < env.idleTimeout))
  /\ [](env.closing => <>(~env.link))

\* the timer fired a full timeout after the last write and the transport
\* is releasing the link
C11_Witness ==
  /\ hist.idled /\ ~mgr.connected /\ env.closing
  /\ mgr.idleTimer = "null" /\ env.liveTimers = 0
  /\ env.idleTimeout > 0 /\ env.quiet >= env.idleTimeout
  /\ \E c \in Ids : cmds[c].status = "resolved"

\* C12: the pending idle timer was armed no earlier than the most recent
\* successful write or inbound notification, and it fires no sooner than
\* one idle timeout after that write or notification.
C12_ResetOnActivity ==
  /\ [](mgr.idleTimer = "armed" => env.age <= env.quiet)
  /\ [][IdleFire => env.quiet >= env.idleTimeout]_vars

\* a notification was delivered on this link and the timer fired one full
\* timeout after it
C12_Witness ==
  /\ hist.idled /\ hist.delivered = 1 /\ env.closing
  /\ env.idleTimeout > 0 /\ env.quiet = env.idleTimeout

\* C13: at most one idle timer is pending, it is the one the supervisor
\* holds, a reset leaves exactly one and disconnect() leaves none.
C13_OneTimer ==
  /\ env.liveTimers <= 1
  /\ env.liveTimers = 1 <=> mgr.idleTimer = "armed"
  /\ mgr.idleTimer # "expired"
  /\ resetIdleTimer(St).env.liveTimers = 1
  /\ disconnect(St).env.liveTimers = 0
  /\ disconnect(St).mgr.idleTimer = "null"

\* the timer armed by the connect was replaced by the write's and by a
\* notification's
C13_Witness ==
  /\ mgr.idleTimer = "armed" /\ env.liveTimers = 1
  /\ hist.delivered = 1
  /\ \E c \in Ids : cmds[c].status = "resolved"

\* C14 as stated: every device-info request of the reconnect callback is
\* followed by a version-info request.
C14_RefreshComplete ==
  \A c \in Ids : cmds[c].kind = "devinfo" /\ Settled(c) =>
    \E c2 \in Ids : c2 > c /\ cmds[c2].kind = "verinfo"

\* C14, amended: a step enqueues at most one command; a subscription that
\* completes a connection enqueues exactly one device-info request; a
\* failed attempt enqueues nothing; without polling a device-info request
\* is enqueued by nothing else; and a version-info request is enqueued
\* exactly when a device-info request is resolved.
C14_RefreshPerConnect ==
  /\ [][Len(cmds') <= Len(cmds) + 1]_vars
  /\ [][(\E t \in TaskIds : SubscribeDone(t)) /\ mgr'.connected =>
          /\ Len(cmds') = Len(cmds) + 1
          /\ cmds'[Len(cmds')].kind = "devinfo"]_vars
  /\ [][(\E t \in TaskIds : SubscribeDone(t)) /\ ~mgr'.connected =>
          Len(cmds') = Len(cmds)]_vars
  /\ [][(\E t \in TaskIds : ScanDone(t) \/ LinkDone(t) \/ DiscoverDone(t)) =>
          Len(cmds') = Len(cmds)]_vars
  /\ [][Len(cmds') > Len(cmds) /\ cmds'[Len(cmds')].kind = "devinfo" =>
          \E t \in TaskIds : SubscribeDone(t)]_vars
  /\ [][(Len(cmds') > Len(cmds) /\ cmds'[Len(cmds')].kind = "verinfo")
          <=> \E c \in Ids : /\ cmds[c].kind = "devinfo"
                              /\ ~Settled(c)
                              /\ cmds'[c].status = "resolved"]_vars

\* two connections were completed, each followed by its device-info
\* request, and a version-info request followed a resolved one
C14_Witness ==
  /\ Cardinality({c \in Ids : cmds[c].kind = "devinfo"}) >= 2
  /\ \E c \in Ids : cmds[c].kind = "devinfo" /\ cmds[c].status = "resolved"
  /\ \E c \in Ids : cmds[c].kind = "verinfo"

\* C15: the characteristic in use carries at most one 'data' listener,
\* exactly one while notifications are on, and an inbound notification
\* reaches the supervisor's handler exactly once.
C15_OneListener ==
  /\ client.listeners <= 1
  /\ env.notifying => client.listeners = 1 /\ client.handler
  /\ hist.delivered <= 1
  /\ emitData([St EXCEPT !.hist.delivered = 0],
              client.listeners).hist.delivered = client.listeners

\* a notification was delivered once over a connection made by the retry
\* after an earlier connection had carried a write
C15_Witness ==
  /\ hist.delivered = 1
  /\ \E d \in DrainIds : task[d].pc = "write" /\ task[d].attempt = 2
  /\ \E c \in Ids : cmds[c].status = "resolved"

\* what a caller of disconnect() can observe of the session
Session(s) == [connected |-> s.mgr.connected,
               idleTimer |-> s.mgr.idleTimer,
               timers |-> s.env.liveTimers,
               transport |-> s.client.connected,
               link |-> s.env.link,
               closing |-> s.env.closing]

\* C16: disconnect() called twice leaves the state disconnect() called
\* once leaves: not connected, no idle timer, the transport disconnected
\* or told to disconnect; called when already disconnected it leaves the
\* session as it is.
C16_Idempotent ==
  LET s1 == disconnect(St)
      s2 == disconnect(s1)
  IN /\ s2 = s1
     /\ ~s1.mgr.connected /\ ~isConnected(s1)
     /\ s1.mgr.idleTimer = "null" /\ s1.env.liveTimers = 0
     /\ s1.env.link => s1.env.closing
     /\ ~s1.env.closing => ~s1.client.connected /\ ~s1.client.peripheral
     /\ (~mgr.connected /\ ~client.connected /\ mgr.idleTimer = "null")
          => Session(s1) = Session(St)

\* disconnect() was called while connected and a second call would change
\* nothing
C16_Witness ==
  /\ ~mgr.connected /\ env.closing /\ env.link
  /\ mgr.idleTimer = "null" /\ ~hist.idled
  /\ disconnect(St) = St
  /\ \E c \in Ids : cmds[c].status = "resolved"

\* ---- vocabulary of the claims about the state store ----

\* the field a status code reports and the largest value declared for it
Field ==
  (ResponseCode.Volume :> "volume") @@ (ResponseCode.CenterVolume :> "centerVolume")
  @@ (ResponseCode.Treble :> "treble") @@ (ResponseCode.Bass :> "bass")
  @@ (ResponseCode.Mute :> "mute") @@ (ResponseCode.QuietMode :> "quietMode")
  @@ (ResponseCode.Balance :> "balance") @@ (ResponseCode.Source :> "source")
  @@ (ResponseCode.Power :> "power") @@ (ResponseCode.Preset :> "preset")
  @@ (ResponseCode.Subwoofer :> "subwooferConnected")
  @@ (ResponseCode.RearVolume :> "rearVolume")

DeclaredMax ==
  (ResponseCode.Volume :> 36) @@ (ResponseCode.CenterVolume :> 30)
  @@ (ResponseCode.Treble :> 20) @@ (ResponseCode.Bass :> 20)
  @@ (ResponseCode.Mute :> 1) @@ (ResponseCode.QuietMode :> 1)
  @@ (ResponseCode.Balance :> 100) @@ (ResponseCode.Source :> 3)
  @@ (ResponseCode.Power :> 1) @@ (ResponseCode.Preset :> 3)
  @@ (ResponseCode.Subwoofer :> 1) @@ (ResponseCode.RearVolume :> 30)

BooleanCodes == {ResponseCode.Mute, ResponseCode.QuietMode,
                 ResponseCode.Power, ResponseCode.Subwoofer}

IsStatus(p) == p.defined /\ p.code \in DOMAIN Field
InDeclaredRange(p) == IsStatus(p) /\ p.value >= 0 /\ p.value <= DeclaredMax[p.code]
OutOfDeclaredRange(p) == IsStatus(p) /\ ~InDeclaredRange(p)

\* the value of the field that a status in range stands for
Meaning(p) ==
  IF p.code = ResponseCode.Power THEN p.value = 0
  ELSE IF p.code \in BooleanCodes THEN p.value = 1
  ELSE p.value

\* C17: a status outside its field's declared range gives the out-of-range
\* outcome, changes no field of DeviceState (nor anything else of the
\* device) and calls no state-change listener.
C17_OutOfRangeIgnored ==
  [][OutOfDeclaredRange(parseNotification(dev'.data)) /\ dev'.count # dev.count =>
       /\ dev'.last.changed = OUT_OF_RANGE
       /\ applyResponse(dev.state, parseNotification(dev'.data)).state = dev.state
       /\ dev'.state = dev.state
       /\ dev'.stateInitialized = dev.stateInitialized
       /\ dev'.last.calls = 0]_vars

\* volume 200 was ignored after volume 36 had been stored
C17_Witness ==
  /\ dev.last.changed = OUT_OF_RANGE
  /\ dev.data = StatusFrame(ResponseCode.Volume, 200)
  /\ dev.state.volume = 36

\* C18: the first status in range that is applied for a field is reported
\* as changed and broadcast to the listeners.
C18_FirstObservationChanged ==
  dev.last.first =>
    /\ dev.last.changed = "true"
    /\ dev.last.calls = NumListeners

C20_Polarity ==
  LET p == dev.last.parsed
  IN IsStatus(p) /\ p.code \in BooleanCodes /\ p.value \in {0, 1} =>
       dev.state[Field[p.code]] =
         (IF p.code = ResponseCode.Power THEN p.value = 0 ELSE p.value = 1)

\* power was switched on by byte 0 after mute had been set by byte 1
C20_Witness ==
  /\ dev.data = StatusFrame(ResponseCode.Power, 0)
  /\ dev.state.power /\ dev.last.changed = "true"
  /\ dev.state.mute

\* ---- vocabulary of the claims about the device verbs ----

NumericFields == {"volume", "bass", "treble", "centerVolume", "rearVolume",
                  "balance", "source", "preset"}

\* the largest value declared for a numeric or enum field
FieldMax ==
  [f \in NumericFields |->
     CASE f = "volume" -> 36
       [] f \in {"bass", "treble"} -> 20
       [] f \in {"centerVolume", "rearVolume"} -> 30
       [] f = "balance" -> 100
       [] OTHER -> 3]

Sentinel == -1

C22_OnlyNotificationsMutate ==
  [][/\ (SetPower \/ SetVolume \/ VolumeUp \/ VolumeDown \/ SetMute
          \/ SetQuietMode \/ SetSource \/ Poll) => dev'.state = dev.state
     /\ dev'.state # dev.state => NotifyData \/ SetPreset]_vars

\* a set-volume command was resolved and a state refresh was rejected: the
\* volume is the one a notification reported, nothing else was observed
C22_Witness ==
  /\ Len(cmds) = 2
  /\ cmds[1].kind = "user" /\ cmds[1].status = "resolved"
  /\ cmds[2].kind = "devinfo" /\ cmds[2].status = "rejected"
  /\ dev.sent = setVolume(36)
  /\ dev.state = [createDefaultState EXCEPT !.volume = 35]

\* a step in which a command is rejected
Rejects == \E c \in Ids : cmds[c].status = "pending" /\ cmds'[c].status = "rejected"

\* C23: setPreset(p) with a read value for p leaves state.preset at that
\* read value with its command still pending; a step that rejects a
\* command leaves state.preset alone, and only a notification or another
\* setPreset changes it afterwards.
C23_OptimisticPreset ==
  /\ [][\A preset \in Presets :
          Verb(devSetPreset(dev, preset)) /\ presetWriteToRead(preset).defined
          => /\ dev'.state.preset = presetWriteToRead(preset).value
             /\ cmds'[Len(cmds')].status = "pending"]_vars
  /\ [][Rejects => dev'.state.preset = dev.state.preset]_vars
  /\ [][dev'.state.preset # dev.state.preset => NotifyData \/ SetPreset]_vars

\* setPreset(Movies) was rejected after a retry and the preset still reads
\* Movies
C23_Witness ==
  /\ Len(cmds) = 1 /\ cmds[1].status = "rejected"
  /\ dev.sent = setPreset(PresetWriteValue.Movies)
  /\ dev.state.preset = PresetReadValue.Movies
  /\ ~hist.clean

\* C24: the handling of a notification calls the state-change listeners
\* exactly when its outcome is "changed", and then each registered
\* listener once, in the order of registration, with the code and the
\* value byte of the frame; a notification that changes DeviceState has
\* that outcome, and every other outcome (unchanged, out of range, frame
\* not parseable, version report) calls no listener.
C24_BroadcastOnChange ==
  [][dev'.count # dev.count =>
       LET data == dev'.data
       IN /\ dev'.state # dev.state => dev'.last.changed = "true"
          /\ dev'.last.changed = "true" =>
                dev'.last.log =
                  [i \in 1..NumListeners |->
                     <<i, data[Len(data) - 1], data[Len(data)]>>]
          /\ dev'.last.changed # "true" => dev'.last.log = <<>>]_vars

\* power on (byte 0) was broadcast to every listener with the raw byte
C24_Witness ==
  /\ dev.data = StatusFrame(ResponseCode.Power, 0)
  /\ dev.state.power
  /\ Len(dev.last.log) = NumListeners
  /\ dev.last.log[1] = <<1, ResponseCode.Power, 0>>
  /\ dev.last.log[NumListeners] = <<NumListeners, ResponseCode.Power, 0>>

\* ---- vocabulary of the claims about the codec ----

\* a version report as the specification describes it
IsVersionReport(data) ==
  Len(data) >= 8 /\ data[3] = 170 /\ data[4] = 1 /\ data[5] = 3

\* C25: parseNotification gives no result for a frame shorter than 4
\* bytes and for a version report (at least 8 bytes, AA 01 03 at offsets
\* 2 to 4); for every other frame it gives the second-to-last byte as the
\* code and the last byte as the value if the code is in 1..15, and no
\* result otherwise.
C25_Decode ==
  calc.fn = "parseNotification" =>
    LET data == calc.data
        code == data[Len(data) - 1]
        value == data[Len(data)]
    IN calc.parsed =
         IF Len(data) < 4 \/ IsVersionReport(data) THEN undefined
         ELSE IF code >= 1 /\ code <= 15
              THEN [defined |-> TRUE, code |-> code, value |-> value]
              ELSE undefined

\* C26: the handling of a version report (a frame of at least 8 bytes with
\* AA 01 03 at offsets 2 to 4) leaves DeviceState and the initialized flag
\* as they were, gives no outcome of a status and calls no state-change
\* listener, whatever its last two bytes are.
C26_VersionIsNoStatus ==
  [][dev'.count # dev.count /\ IsVersionReport(dev'.data) =>
       /\ dev'.state = dev.state
       /\ dev'.stateInitialized = dev.stateInitialized
       /\ dev'.last.changed = ""
       /\ dev'.last.log = <<>>]_vars

\* a version report ending in 02 05 (center volume 5, were it a status)
\* arrived after the center volume had been reported as 30
C26_Witness ==
  /\ dev.count = 2
  /\ dev.data = <<204, 5, 170, 1, 3, 2, 2, 5>>
  /\ InDeclaredRange([defined |-> TRUE, code |-> 2, value |-> 5])
  /\ dev.state.centerVolume = 30
  /\ dev.last.log = <<>>

\* C27: a version report of type 01 that arrives while no version is
\* stored stores "<major>.<minor>" and calls every version listener once;
\* every other notification (a later report of type 01, a report of
\* another type, a status) leaves the stored version alone and calls no
\* version listener.
C27_VersionOnce ==
  /\ [][dev'.count # dev.count =>
          LET data == dev'.data
          IN IF IsVersionReport(data) /\ data[6] = 1 /\ dev.mcuVersion = ""
             THEN /\ dev'.mcuVersion # ""
                  /\ data = <<204, 5, 170, 1, 3, 1, 1, 71>> => dev'.mcuVersion = "1.71"
                  /\ data = <<204, 5, 170, 1, 3, 1, 1, 72>> => dev'.mcuVersion = "1.72"
                  /\ dev'.last.versionCalls = NumListeners
             ELSE /\ dev'.mcuVersion = dev.mcuVersion
                  /\ dev'.last.versionCalls = 0]_vars
  /\ [](dev.mcuVersion \in {"", "1.71", "1.72"})

\* version 1.72 was reported after 1.71 had been stored: 1.71 stays
C27_Witness ==
  /\ dev.count = 2
  /\ dev.data = <<204, 5, 170, 1, 3, 1, 1, 72>>
  /\ dev.mcuVersion = "1.71"
  /\ dev.last.versionCalls = 0

\* the upper end of the range each encoder documents
EncoderMax ==
  [setVolume |-> 36, setBass |-> 20, setTreble |-> 20,
   setCenterVolume |-> 30, setRearVolume |-> 30, setBalance |-> 100]

\* C28: for every integer argument, each of setVolume, setBass, setTreble,
\* setCenterVolume, setRearVolume and setBalance returns a frame of five
\* bytes whose last byte is the argument if it lies in the encoder's
\* range, 0 if it is below and the upper end if it is above.
C28_Clamp ==
  calc.fn \in DOMAIN EncoderMax =>
    /\ Len(calc.data) = 5
    /\ calc.data[5] = IF calc.arg < 0 THEN 0
                      ELSE IF calc.arg > EncoderMax[calc.fn]
                           THEN EncoderMax[calc.fn]
                           ELSE calc.arg

\* setBalance(101) gave the value byte 100
C28_Witness ==
  /\ calc.fn = "setBalance" /\ calc.arg = 101
  /\ calc.data = <<170, 4, 0, 1, 100>>

\* the set-volume command with the absolute value v
SetVolumeCommand(v) ==
  [characteristicUuid |-> CharUUID.EqControl, data |-> <<170, 3, 2, 1, v>>]

Clamp(x, lo, hi) == IF x < lo THEN lo ELSE IF x > hi THEN hi ELSE x

\* C29: a call of volumeUp(step) or volumeDown(step) enqueues exactly one
\* command, the set-volume command whose value byte is the stored volume
\* (the sentinel -1 included) plus respectively minus step, clamped to
\* 0..36.
C29_AbsoluteVolume ==
  [][\A step \in Steps :
       /\ Verb(devVolumeUp(dev, step)) =>
            /\ Len(cmds') = Len(cmds) + 1
            /\ dev'.sent = SetVolumeCommand(Clamp(dev.state.volume + step, 0, 36))
       /\ Verb(devVolumeDown(dev, step)) =>
            /\ Len(cmds') = Len(cmds) + 1
            /\ dev'.sent = SetVolumeCommand(Clamp(dev.state.volume - step, 0, 36))]_vars

\* volumeDown(1) at the reported volume 35 enqueued set-volume 34 as the
\* second command (no other verb call gives 34)
C29_Witness ==
  /\ dev.state.volume = 35
  /\ dev.sent = SetVolumeCommand(34)
  /\ Len(cmds) = 2 /\ Len(mgr.queue) = 1

Abs(x) == IF x < 0 THEN 0 - x ELSE x

\* C30: for every native volume v in 0..36, volumeToPercent(v) is the
\* integer nearest to 100 v / 36 and converting it back with
\* percentToVolume gives a volume within 1 of v; for every percentage p in
\* 0..100, percentToVolume(p) is the integer nearest to 36 p / 100.
C30_RoundTrip ==
  /\ calc.fn = "volumeToPercent" =>
        /\ calc.arg \in 0..36
        /\ 2 * Abs(36 * calc.out - 100 * calc.arg) <= 36
        /\ Abs(percentToVolume(calc.out) - calc.arg) <= 1
  /\ calc.fn = "percentToVolume" =>
        2 * Abs(100 * calc.out - 36 * calc.arg) <= 100

\* volume 13 is 36 percent (36.1 rounded) and 36 percent is volume 13
\* (12.96 rounded)
C30_Witness ==
  /\ calc.fn = "volumeToPercent" /\ calc.arg = 13 /\ calc.out = 36
  /\ percentToVolume(calc.out) = 13

\* ---- background polling ----

\* a step enqueues a device-info request
NewRefresh ==
  /\ Len(cmds') = Len(cmds) + 1
  /\ cmds'[Len(cmds')].kind = "devinfo"

\* C31: startPolling with an interval of zero creates no timer and
\* enqueues nothing; with a positive interval it enqueues a state refresh
\* at once and creates an interval timer, the one the device remembers;
\* every tick of an interval enqueues a state refresh, a tick needs an
\* interval that is not cleared, and stopPolling clears the interval the
\* device remembers.
C31_Polling ==
  [][/\ hist'.starts # hist.starts /\ hist'.interval <= 0
          => /\ env' = env /\ dev' = dev /\ cmds' = cmds
             /\ mgr' = mgr /\ task' = task /\ client' = client
     /\ hist'.starts # hist.starts /\ hist'.interval > 0
          => /\ NewRefresh
             /\ env'.intervals = env.intervals \cup {dev'.pollTimer}
             /\ dev'.pollTimer \notin env.intervals
             /\ dev'.pollTimer # NoInterval
     /\ PollFire => NewRefresh /\ env'.intervals = env.intervals
     /\ (/\ NewRefresh
         /\ hist'.starts = hist.starts
         /\ \A t \in TaskIds : task[t].pc # "sub")
          => env.intervals # {}
     /\ dev.pollTimer # NoInterval /\ dev'.pollTimer = NoInterval
          => /\ dev.pollTimer \notin env'.intervals
             /\ env.intervals = {dev.pollTimer} => env'.intervals = {}
    ]_vars

\* polling was started, its timer ticked once, and a later startPolling
\* with interval zero changed nothing
C31_Witness ==
  /\ hist.starts = 2 /\ hist.interval = 0
  /\ env.intervals = {dev.pollTimer}
  /\ Len(cmds) = 2
  /\ \A c \in Ids : cmds[c].kind = "devinfo"

\* C40: at most one poll timer is live at any time, and once stopPolling
\* has returned (the device remembers no timer) no poll timer is left to
\* tick, however often startPolling was called before.
C40_StoppedForGood ==
  /\ Cardinality(env.intervals) <= 1
  /\ dev.pollTimer = NoInterval => env.intervals = {}

\* kind of the commands a step appends to the history
Appended == {cmds'[c].kind : c \in (Len(cmds) + 1)..Len(cmds')}

\* C39: a version-info request is enqueued only in the step in which a
\* device-info request resolves, and every device-info request that
\* resolves is followed by one; a step that rejects a device-info request
\* enqueues nothing, and the drain loop goes on with what is queued.
C39_VersionAfterDeviceInfo ==
  [][/\ "verinfo" \in Appended
          => \E i \in Ids : /\ cmds[i].kind = "devinfo" /\ ~Settled(i)
                            /\ cmds'[i].status = "resolved"
     /\ \A i \in Ids :
          cmds[i].kind = "devinfo" /\ ~Settled(i) /\ Settled(i)'
            => IF cmds'[i].status = "resolved"
               THEN Appended = {"verinfo"} /\ Len(cmds') = Len(cmds) + 1
               ELSE /\ cmds'[i].status = "rejected"
                    /\ Appended = {}
                    /\ mgr'.queue # <<>> => mgr'.processing
    ]_vars

\* one refresh whose device-info request was rejected and issued no
\* version-info request, and one whose device-info request resolved
C39_Witness ==
  /\ Len(cmds) = 4
  /\ cmds[1].kind = "devinfo" /\ cmds[1].status = "rejected"
  /\ cmds[2].kind = "devinfo" /\ cmds[2].status = "resolved"
  /\ cmds[3].kind = "devinfo" /\ cmds[4].kind = "verinfo"

\* ---- who writes the connection state ----

\* a drain step is suspended at connect, subscribe or write
DrainSuspended ==
  \E d \in DrainIds : task[d].pc \in ConnPhases \cup {"write"}

\* C33: while a drain step is suspended at connect, subscribe or write,
\* neither the idle timer's expiry, nor an external disconnect(), nor a
\* notification, nor a link drop changes the supervisor's connected flag.
C33_SingleWriter ==
  [][DrainSuspended /\ (IdleFire \/ CallDisconnect \/ Notify \/ LinkDrop)
       => mgr'.connected = mgr.connected]_vars

\* ---- an external link drop ----

\* the link was dropped from outside: the transport reports not connected
\* while the supervisor's own flag still says connected
Stale == mgr.connected /\ ~client.connected

\* drain d takes a command off the queue
Takes(d) == task'[d].item # task[d].item /\ task'[d].item # 0

\* C34: after an external link drop isConnected() is false; the drain
\* loop answers the next command it takes with a new client.connect and
\* no write; and a command for which a connection was started is first
\* written in the step in which the subscription completes, the
\* supervisor becomes connected with one listener on the characteristic
\* and the reconnect callback enqueues its device-info request.
C34_ReconnectAfterDrop ==
  [][/\ Stale => ~isConnected(St)
     /\ \A d \in DrainIds :
          /\ Stale /\ Takes(d)
               => /\ task'[d].pc = "scan"
                  /\ task'[d].conns = 1
                  /\ task'[d].writes = 0
          /\ (/\ task[d].conns > 0 /\ task[d].writes = 0
              /\ task'[d].item = task[d].item /\ task'[d].writes = 1)
               => /\ task[d].pc = "sub"
                  /\ mgr'.connected /\ client'.connected
                  /\ client'.listeners = 1
                  /\ "devinfo" \in Appended
    ]_vars

\* a first command was written over a link that then dropped, and the
\* next command, taken while the flag was stale, has a connection under
\* way and no write
C34_Witness ==
  /\ Stale
  /\ \E c \in Ids : cmds[c].status = "resolved"
  /\ \E d \in DrainIds :
       /\ task[d].pc = "scan" /\ task[d].attempt = 1
       /\ task[d].conns = 1 /\ task[d].writes = 0

\* ---- ensureConnected() on a connected supervisor ----

\* C35: ensureConnected() called while the supervisor's flag is set and
\* the transport is connected starts no client.connect, subscribes
\* nothing, runs no reconnect callback and touches neither the queue nor
\* the drain loop: it leaves one idle timer, newly armed, and nothing
\* else changed. The same holds for the call the drain loop makes for a
\* command it takes: the command goes straight to its write.
C35_OnlyRestartsTimer ==
  [][/\ CallEnsureConnectedNoted /\ isConnected(St)
          => /\ mgr' = [mgr EXCEPT !.idleTimer = "armed"]
             /\ env' = [env EXCEPT !.liveTimers = 1, !.age = 0]
             /\ client' = client /\ task' = task /\ cmds' = cmds
     /\ \A d \in DrainIds :
          isConnected(St) /\ isConnected(St)' /\ Takes(d)
            => /\ task'[d].pc = "write" /\ task'[d].conns = 0
               /\ client'.listeners = client.listeners
               /\ mgr'.idleTimer = "armed" /\ env'.liveTimers = 1
    ]_vars

\* ensureConnected() was called from outside on a connected supervisor,
\* which stays connected with its idle timer armed while a command the
\* drain loop took without connecting is being written
C35_Witness ==
  /\ hist.ensured
  /\ isConnected(St) /\ mgr.idleTimer = "armed"
  /\ \E d \in DrainIds : task[d].pc = "write" /\ task[d].conns = 0

\* ---- the link is not held for ever ----

\* no command is queued or in flight
Quiescent == mgr.queue = <<>> /\ \A t \in TaskIds : task[t].pc = "idle"

\* C37: whenever the link is up, no command is queued or in flight and no
\* disconnect of the link is under way, an idle timer is pending.
C37_TimerWhileLinked ==
  env.link /\ Quiescent /\ ~env.closing
    => mgr.idleTimer = "armed" /\ env.liveTimers > 0

\* ---- disconnect() and the queue ----

\* C38: disconnect(), called by the idle timer or by the shutdown
\* handler, changes neither the queue, nor the outcome of any command,
\* nor the position of the drain loop; and the drain loop starts a
\* connection for the next command it takes while the supervisor is
\* disconnected, before any write.
C38_QueueUntouched ==
  [][/\ IdleFire \/ CallDisconnect
          => /\ mgr'.queue = mgr.queue /\ mgr'.processing = mgr.processing
             /\ cmds' = cmds /\ task' = task
     /\ \A d \in DrainIds :
          ~mgr.connected /\ Takes(d)
            => task'[d].conns = 1 /\ task'[d].pc # "write"
    ]_vars

\* disconnect() ran while one command was in flight and another queued:
\* both are still there
C38_Witness ==
  /\ ~mgr.connected /\ env.closing /\ mgr.idleTimer = "null"
  /\ mgr.queue # <<>> /\ mgr.processing
  /\ \E d \in DrainIds : task[d].pc = "write" /\ ~Settled(task[d].item)
  /\ \A c \in Ids : cmds[c].status # "rejected"

\* ---- listeners that throw ----

\* C36: when the handling of a notification changes DeviceState, every
\* registered listener is called once, in the order of registration,
\* whichever of them throw, and the handling ends with the new value in
\* DeviceState and the state marked initialized.
C36_ListenersIsolated ==
  [][dev'.count # dev.count /\ dev'.last.changed = "true" =>
       LET data == dev'.data
           p == dev'.last.parsed
       IN /\ dev'.last.log =
               [i \in 1..NumListeners |->
                  <<i, data[Len(data) - 1], data[Len(data)]>>]
          /\ dev'.state[Field[p.code]] = Meaning(p)
          /\ dev'.stateInitialized]_vars

\* the first listener threw while a change of the volume was broadcast,
\* and the last listener was called all the same
C36_Witness ==
  /\ 1 \in dev.throwers /\ NumListeners \notin dev.throwers
  /\ dev.last.changed = "true"
  /\ dev.last.parsed.code = ResponseCode.Volume
  /\ dev.state.volume = dev.last.parsed.value
  /\ Len(dev.last.log) = NumListeners
  /\ dev.last.log[NumListeners][1] = NumListeners

\* ---- the link between polls ----

\* C32: with pollInterval larger than idleTimeout, no user command, and
\* the transport's operations and the notifications that follow a poll
\* over before the clock goes on, the supervisor is disconnected at the
\* moment a poll tick is due, which lies between that tick and the one
\* before it, and the link was down at some moment since the tick before.
C32_ReleasedBetweenPolls ==
  PollDue => ~mgr.connected /\ ~isConnected(St) /\ hist.down

\* the refresh of startPolling found no device; the first poll tick
\* connected and wrote its requests, the idle timer disconnected, the link
\* is down and the second poll tick is due
C32_Witness ==
  /\ PollDue /\ hist.ticked /\ ~mgr.connected /\ ~env.link
  /\ mgr.idleTimer = "null"
  /\ cmds[1].status = "rejected"
  /\ \A c \in Ids \ {1} : cmds[c].status = "resolved"
  /\ Len(cmds) > 1
====
